---- MODULE Spec2Model ----
(***************************************************************************)
(* DeepgramService (src/lib/deepgram-service.ts and its queued variant     *)
(* src/unnamed/part_000): a browser-side live transcription session.       *)
(* One service instance owns a WebSocket, a Web Audio mixing graph, a      *)
(* MediaRecorder and a list of caption callbacks.  Everything runs on one  *)
(* event loop: every action below is one uninterrupted run of a method or  *)
(* of an event handler, up to its next await.                              *)
(***************************************************************************)
EXTENDS Integers, Sequences, FiniteSets, TLC

(* ------------------------------ bounds --------------------------------- *)

\* start() calls made on the instance
MaxStarts == 2
\* inbound WebSocket messages delivered
MaxMsgs == 2
\* callbacks subscribed with onCaption() at one time
MaxSubs == 2
\* callbacks subscribed with onError() at one time
MaxErrorSubs == 1
\* encoded chunks the recorders produce
MaxChunks == 2
\* error notifications the WebSockets deliver
MaxTransportErrors == 1
\* permission streams getAudioDevices() calls can leave open
MaxProbes == 2
\* startTranscription() calls made on the GoogleSpeechService instance
MaxTranscriptions == 2
\* audio chunks the processors of GoogleSpeechService hand over
MaxAudioChunks == 2
\* calls and end events the WebSpeechService instance sees
MaxWebOps == 6

(* ---------------------------- value domains ---------------------------- *)

NULL == 0

\* the two versions of DeepgramService in the repository
Variants == {"lib", "queued"}

\* deviceId argument of start(): "" stands for undefined / empty string,
\* "unplugged" for the id of a device that is not there any more
DeviceIds == {"", "mic1", "system-audio", "unplugged"}

\* caller-supplied caption callbacks (functions, compared by identity)
Callbacks == {"cbA", "cbB"}

\* what a caption callback does with the service while it runs: it returns,
\* or it first subscribes or unsubscribes a callback
Reactions ==
    {<<"return">>}
    \cup {<<"onCaption", cb>> : cb \in Callbacks}
    \cup {<<"unsubscribe", cb>> : cb \in Callbacks}

\* callbacks that leave the service alone
Quiet == [cb \in Callbacks |-> <<"return">>]

\* callbacks each of which returns or throws when it is called
Fragile == [Callbacks -> {<<"return">>, <<"throw">>}]

\* caller-supplied error callbacks
ErrorCallbacks == {"onErr"}

\* screen-share MediaStreams handed to addScreenShareAudio
ScreenStreams == {1, 2}

\* stream.getAudioTracks().length: stream 2 is a video-only share
AudioTrackCount(stream) == IF stream = 2 THEN 0 ELSE 1

\* devices getUserMedia can open with an exact deviceId constraint
AvailableDevices == {"mic1"}

Sessions == 1..MaxStarts

\* identities of startTranscription() calls and of what each one creates
Transcriptions == 1..MaxTranscriptions

\* languageCode arguments of startTranscription()
Languages == {"en-US", "es-ES"}

\* how the /api/transcribe call of one chunk ends: the fetch throws, the
\* response is not ok, the body has an empty transcript, or a transcript
TranscribeResults == {"throws", "notOk", "empty", "transcript"}

\* identities of screen-share source nodes that can be alive at once
ScreenNodeIds == 1..(MaxStarts + 1)

\* an identity not (or no longer) naming a reachable node
NoNode == [ctx |-> NULL, stream |-> NULL, conn |-> NULL]

VARIABLES
    variant,        \* which version of the class is running
    this,           \* the fields of the DeepgramService instance
    calls,          \* start() invocations: their promise state, and the
                    \* deviceId argument while a continuation can still read it
    sockets,        \* WebSocket objects: readyState, -1 = not constructed
    audioContexts,  \* AudioContext objects (each with its destination node)
    destStreams,    \* tracks of destination.stream of each context
    getUserMedia,   \* navigator.mediaDevices.getUserMedia promises, with the
                    \* constraints they were called with while pending
    micStreams,     \* tracks of each acquired microphone stream
    micNodes,       \* MediaStreamAudioSourceNodes made from microphone streams
    screenNodes,    \* MediaStreamAudioSourceNodes made from screen shares
    recorders,      \* MediaRecorder objects
    deliveries,     \* every call of a caption callback, in call order
    errorListeners, \* callbacks subscribed with onError
    errorEvents,    \* every call of an error callback, in call order
    inbound,        \* the inbound WebSocket messages received, the one
                    \* received last first
    handled,        \* history: how many inbound messages were handled
    reactions,      \* history: what each callback did when the last inbound
                    \* message was handled
    outbound,       \* the encoded chunk handled last, if any, with the socket
                    \* it was sent on
    produced,       \* history: how many encoded chunks were produced
    ran,            \* history: the recorders whose start(250) returned
    sinceStop,      \* history since the last stop(): connections made,
                    \* acquisitions triggered, and the audio-bearing stream an
                    \* addScreenShareAudio call offered before the graph was
                    \* ready (until it is applied, replaced or removed)
    notified,       \* history: how many error notifications of the
                    \* WebSockets were handled
    deviceQuery,    \* the getAudioDevices() call made last, if any: what the
                    \* platform answered, the platform calls it made, and
                    \* how its promise settled
    probes,         \* live streams getAudioDevices() calls obtained
    google,         \* the fields of the GoogleSpeechService instance
    transcriptions, \* startTranscription() invocations: their promise state
    gStreams,       \* tracks of each stream startTranscription() acquired
    gContexts,      \* the AudioContext each startTranscription() created
    gProcessors,    \* the ScriptProcessorNode each startTranscription() made
    audioChunks,    \* audio chunks handed to processAudioChunk, in capture
                    \* order, each with the state of its /api/transcribe call
    gDeliveries,    \* every call of a caption callback of
                    \* GoogleSpeechService, in call order
    gStopped,       \* history: stopTranscription() was called and
                    \* startTranscription() was not called since
    web,            \* the fields of the WebSpeechService instance
    recognizer,     \* the SpeechRecognition object: idle, started, stopping
    webHistory,     \* history of WebSpeechService: calls and end events so
                    \* far, the last of them, recognition.start() calls so
                    \* far, and whether the last start() or stop() that
                    \* took effect was a start()
    sidebar,        \* the TranscriptionSidebar: phase (notMounted, mounted,
                    \* unmounted) and its state isRecording and error
                    \* ("" stands for null)
    exchange        \* the request POST /api/transcribe handled last, if any,
                    \* with the upstream calls it made and its response

\* the state of GoogleSpeechService and of what it created
googleVars == <<google, transcriptions, gStreams, gContexts, gProcessors,
                audioChunks, gDeliveries, gStopped>>

\* the state of DeepgramService, of what it created and of its platform
deepgramVars == <<variant, this, calls, sockets, audioContexts, destStreams,
                  getUserMedia, micStreams, micNodes, screenNodes, recorders,
                  deliveries, errorListeners, errorEvents, inbound, handled,
                  reactions, outbound, produced, ran, sinceStop, notified,
                  deviceQuery, probes>>

\* the state of WebSpeechService and of its recognizer
webVars == <<web, recognizer, webHistory>>

\* the state of the component that uses the services
uiVars == <<sidebar>>

\* the state of the transcribe route
routeVars == <<exchange>>

\* what no method or handler of DeepgramService touches
peerVars == <<googleVars, webVars, uiVars, routeVars>>

\* what no method or handler of GoogleSpeechService touches
notGoogleVars == <<deepgramVars, webVars, uiVars, routeVars>>

\* what no method or handler of WebSpeechService touches
notWebVars == <<deepgramVars, googleVars, uiVars, routeVars>>

vars == <<deepgramVars, peerVars>>

\* what no method of the class and no WebSocket handler writes
errorVars == <<errorListeners, errorEvents>>

\* what only the arrival of an inbound message changes
inboundVars == <<inbound, handled, reactions>>

\* what only an encoded chunk changes
chunkVars == <<outbound, produced, ran>>

\* what only getAudioDevices() changes
deviceVars == <<deviceQuery, probes>>

(* --------------------- the credential collaborator --------------------- *)

\* GET /api/deepgram/token; key "" = no key field, error "" = no error field
GET(envKey, upstream) ==
    IF envKey = ""
    THEN [status |-> 500, key |-> "", error |-> "Deepgram API key not configured"]
    ELSE IF upstream = "throws"
    THEN [status |-> 500, key |-> "", error |-> "Internal server error"]
    ELSE [status |-> 200, key |-> envKey, error |-> ""]

\* what fetch('/api/deepgram/token') + response.json() can hand to start():
\* every answer of the route, the empty object, and (fetched = FALSE) a
\* fetch or a response.json() that rejects
TokenResponses ==
    { [fetched |-> TRUE, body |-> GET(e, u)] :
        e \in {"", "dg-key"}, u \in {"ok", "notok", "throws"} }
    \cup { [fetched |-> TRUE, body |-> [status |-> 200, key |-> "", error |-> ""]] }
    \cup { [fetched |-> FALSE, body |-> [status |-> 0, key |-> "", error |-> ""]] }

(* ------------------------- the world of objects ------------------------ *)

\* the service instance together with every browser object it can reach
World ==
    [this |-> this, sockets |-> sockets, audioContexts |-> audioContexts,
     destStreams |-> destStreams, getUserMedia |-> getUserMedia,
     micStreams |-> micStreams, micNodes |-> micNodes,
     screenNodes |-> screenNodes, recorders |-> recorders,
     deliveries |-> deliveries]

Commit(w) ==
    /\ this' = w.this
    /\ sockets' = w.sockets
    /\ audioContexts' = w.audioContexts
    /\ destStreams' = w.destStreams
    /\ getUserMedia' = w.getUserMedia
    /\ micStreams' = w.micStreams
    /\ micNodes' = w.micNodes
    /\ screenNodes' = w.screenNodes
    /\ recorders' = w.recorders
    /\ deliveries' = w.deliveries

(* ------------------------------- methods ------------------------------- *)

isActive(w) == w.this.isConnected

\* stop(): tear the session down
stop(w) ==
    LET t == w.this
        r == t.mediaRecorder
        w1 == IF r # NULL /\ w.recorders[r].state # "inactive"
              THEN [w EXCEPT !.recorders[r].state = "inactive",
                             !.destStreams[w.recorders[r].stream] = "stopped"]
              ELSE w
        w2 == IF t.micStream # NULL
              THEN [w1 EXCEPT !.micStreams[t.micStream] = "stopped"]
              ELSE w1
        w3 == IF t.audioContext # NULL
              THEN [w2 EXCEPT !.audioContexts[t.audioContext] = "closed",
                              !.this.audioContext = NULL]
              ELSE w2
        w4 == [w3 EXCEPT !.this.micSource = NULL,
                         !.this.screenSource = NULL,
                         !.this.destination = NULL]
        w5 == IF t.socket # NULL /\ w.sockets[t.socket] = 1
              THEN [w4 EXCEPT !.sockets[t.socket] = 2]
              ELSE w4
    IN  [w5 EXCEPT !.this.isConnected = FALSE,
                   !.this.mediaRecorder = NULL,
                   !.this.socket = NULL,
                   !.this.screenStream = IF variant = "queued" THEN NULL ELSE @]

\* the constraints startAudioProcessing passes to getUserMedia
Constraints(deviceId) ==
    IF deviceId # "" /\ (variant = "lib" \/ deviceId # "system-audio")
    THEN deviceId
    ELSE "default"

\* startAudioProcessing(deviceId) up to its await, run for the socket k
\* whose onopen triggered it
startAudioProcessing(w, k, deviceId) ==
    [w EXCEPT !.audioContexts[k] = "running",
              !.destStreams[k] = "live",
              !.this.audioContext = k,
              !.this.destination = k,
              !.getUserMedia[k] = [state |-> "pending",
                                   audio |-> Constraints(deviceId)]]

\* the identity a newly created screen-share node gets
NewScreenNode(w) ==
    CHOOSE n \in ScreenNodeIds :
        /\ w.screenNodes[n] = NoNode
        /\ \A m \in ScreenNodeIds : m < n => w.screenNodes[m] # NoNode

\* node.disconnect() of a screen-share node the service drops its reference
\* to: nothing can reach the node afterwards
disconnect(w, n) == [w EXCEPT !.screenNodes[n] = NoNode]

\* addScreenShareAudio without the test of the audio tracks
addScreenShareAudio_NoTrackCheck(w, stream) ==
    LET w0 == IF variant = "queued"
              THEN [w EXCEPT !.this.screenStream = stream]
              ELSE w
        t == w0.this
        old == t.screenSource
        new == NewScreenNode(w0)
        w1 == [w0 EXCEPT !.screenNodes[new] = [ctx |-> t.audioContext,
                                               stream |-> stream,
                                               conn |-> t.destination],
                         !.this.screenSource = new]
    IN  IF t.audioContext = NULL \/ t.destination = NULL THEN w0
        ELSE IF old # NULL THEN disconnect(w1, old)
        ELSE w1

\* addScreenShareAudio without the disconnect of the previous source
addScreenShareAudio_KeepsPrevious(w, stream) ==
    LET w0 == IF variant = "queued"
              THEN [w EXCEPT !.this.screenStream = stream]
              ELSE w
        t == w0.this
        new == NewScreenNode(w0)
    IN  IF t.audioContext = NULL \/ t.destination = NULL THEN w0
        ELSE IF AudioTrackCount(stream) = 0 THEN w0
        ELSE [w0 EXCEPT !.screenNodes[new] = [ctx |-> t.audioContext,
                                              stream |-> stream,
                                              conn |-> t.destination],
                        !.this.screenSource = new]

\* addScreenShareAudio(stream)
addScreenShareAudio(w, stream) ==
    LET w0 == IF variant = "queued"
              THEN [w EXCEPT !.this.screenStream = stream]
              ELSE w
        t == w0.this
        old == t.screenSource
        new == NewScreenNode(w0)
        w1 == [w0 EXCEPT !.screenNodes[new] = [ctx |-> t.audioContext,
                                               stream |-> stream,
                                               conn |-> t.destination],
                         !.this.screenSource = new]
    IN  IF t.audioContext = NULL \/ t.destination = NULL THEN w0
        ELSE IF AudioTrackCount(stream) = 0 THEN w0
        ELSE IF old # NULL THEN disconnect(w1, old)
        ELSE w1

\* removeScreenShareAudio that only forgets the node
removeScreenShareAudio_KeepsConnection(w) ==
    [w EXCEPT !.this.screenSource = NULL,
              !.this.screenStream = IF variant = "queued" THEN NULL ELSE @]

\* removeScreenShareAudio that tears the whole session down
removeScreenShareAudio_StopsSession(w) ==
    stop(removeScreenShareAudio_KeepsConnection(w))

\* removeScreenShareAudio()
removeScreenShareAudio(w) ==
    LET w0 == IF variant = "queued"
              THEN [w EXCEPT !.this.screenStream = NULL]
              ELSE w
        old == w.this.screenSource
    IN  IF old # NULL
        THEN [disconnect(w0, old) EXCEPT !.this.screenSource = NULL]
        ELSE w0

\* how the platform answers startRecording: the recorder is constructed
\* and started, its start(250) throws, or new MediaRecorder throws
RecorderOutcomes == {"started", "startThrows", "constructorThrows"}

\* startRecording(stream): one try block around the assignment of
\* this.mediaRecorder and the call of start(250); the catch only logs, so a
\* recorder whose start() threw stays assigned, inactive
startRecording(w, k, dest, recorder) ==
    IF recorder = "constructorThrows" THEN w
    ELSE [w EXCEPT !.recorders[k] =
                        [state |-> IF recorder = "started"
                                   THEN "recording" ELSE "inactive",
                         stream |-> dest],
                   !.this.mediaRecorder = k]

\* mediaRecorder.ondataavailable that sends without looking at readyState
ondataavailable_NoStateCheck(w, size) ==
    IF size > 0 /\ w.this.socket # NULL
    THEN w.this.socket
    ELSE NULL

\* mediaRecorder.ondataavailable: the socket the chunk is sent on, NULL when
\* the chunk is dropped
ondataavailable(w, size) ==
    IF /\ size > 0
       /\ w.this.socket # NULL
       /\ w.sockets[w.this.socket] = 1
    THEN w.this.socket
    ELSE NULL

\* startAudioProcessing after its await resolved with microphone stream k.
\* A TypeError on a null audioContext / destination ends the try block.
resumeAudioProcessing(w, k, recorder) ==
    LET w1 == [w EXCEPT !.getUserMedia[k] = [state |-> "resolved",
                                             audio |-> "default"],
                        !.micStreams[k] = "live",
                        !.this.micStream = k]
        ctx == w.this.audioContext
        w2 == [w1 EXCEPT !.micNodes[k] = [ctx |-> ctx, conn |-> NULL],
                         !.this.micSource = k]
        dest == w.this.destination
        w3 == [w2 EXCEPT !.micNodes[k].conn = dest]
        w4 == IF variant = "queued" /\ w3.this.screenStream # NULL
              THEN addScreenShareAudio(w3, w3.this.screenStream)
              ELSE w3
    IN  IF ctx = NULL THEN w1
        ELSE IF dest = NULL THEN w2
        ELSE startRecording(w4, k, w4.this.destination, recorder)

\* a catch block that starts the encoder on the destination all the same
failAudioProcessing_StillRecords(w, k) ==
    LET w1 == [w EXCEPT !.getUserMedia[k] = [state |-> "rejected",
                                             audio |-> "default"]]
    IN  IF w.this.destination = NULL THEN w1
        ELSE startRecording(w1, k, w.this.destination, "started")

\* startAudioProcessing after its await rejected: caught and logged
failAudioProcessing(w, k) ==
    [w EXCEPT !.getUserMedia[k] = [state |-> "rejected", audio |-> "default"]]

(* ------------------------------ event bus ------------------------------ *)

\* an unsubscribe closure that filters the wrong way round
unsubscribe_KeepsCallback(listeners, callback) ==
    SelectSeq(listeners, LAMBDA cb : cb = callback)

\* the returned unsubscribe closure: listeners.filter(cb => cb !== callback)
unsubscribe(listeners, callback) ==
    SelectSeq(listeners, LAMBDA cb : cb # callback)

\* the body of callback cb run with caption: the call is recorded, then the
\* callback does react[cb].  push changes the array this.listeners refers
\* to; the unsubscribe closure assigns a new array to this.listeners
invoke(w, cb, caption, react) ==
    LET called == [w EXCEPT !.deliveries =
                        Append(@, [cb |-> cb, caption |-> caption])]
        r == react[cb]
    IN  IF r[1] = "onCaption"
        THEN [called EXCEPT !.this.listeners = Append(@, r[2])]
        ELSE IF r[1] = "unsubscribe"
        THEN [called EXCEPT !.this.listeners = unsubscribe(@, r[2])]
        ELSE called

\* a loop that reads this.listeners and its length anew at every index
RECURSIVE liveLoop(_, _, _, _)
liveLoop(w, i, caption, react) ==
    IF i > Len(w.this.listeners) \/ i > MaxSubs + 1 THEN w
    ELSE liveLoop(invoke(w, w.this.listeners[i], caption, react),
                  i + 1, caption, react)

\* emit as a loop over the live listener list
emit_LivePass(w, caption, react) ==
    liveLoop(w, 1, caption, react)

\* Array.prototype.forEach on the array object the pass started on: array
\* is its content, shared tells whether this.listeners still refers to it
\* (so that a push lands in it); indices up to the length at the start of
\* the pass are visited; an exception a callback throws ends the pass
RECURSIVE forEach(_, _, _, _, _, _, _)
forEach(w, array, shared, i, bound, caption, react) ==
    IF i > bound THEN w
    ELSE LET r == react[array[i]]
             after == invoke(w, array[i], caption, react)
         IN  IF r[1] = "throw" THEN after
             ELSE forEach(after,
                          IF shared /\ r[1] = "onCaption"
                          THEN Append(array, r[2])
                          ELSE array,
                          shared /\ r[1] # "unsubscribe",
                          i + 1, bound, caption, react)

\* emit(caption): listeners.forEach(cb => cb(caption))
emit(w, caption, react) ==
    forEach(w, w.this.listeners, TRUE, 1, Len(w.this.listeners),
            caption, react)

\* the label without the words of the alternative: always speaker 0
SpeakerOf_Untagged(m) == 0

\* alt.words?.[0]?.speaker ?? 0
SpeakerOf(m) == IF m.words = "tagged" THEN m.speaker ELSE 0

\* the transcript test without the test of its length
HasTranscript_AnyString(m) ==
    m.alt /\ m.hasTranscript

\* transcript && transcript.length > 0, for alt?.transcript
HasTranscript(m) ==
    m.alt /\ m.hasTranscript /\ Len(m.transcript) > 0

\* a handler that holds an interim caption back and delivers it after the
\* caption of the final frame that follows it
onmessage_FinalFirst(w, m, react) ==
    LET Caption(f) == [text |-> f.transcript,
                       speaker |-> <<"Speaker", SpeakerOf(f)>>,
                       isFinal |-> f.is_final]
        Held(f) == f.json /\ HasTranscript(f) /\ f.is_final # "true"
    IN  IF ~m.json \/ ~HasTranscript(m) \/ Held(m) THEN w
        ELSE LET final == emit(w, Caption(m), react)
             IN  IF inbound = <<>> THEN final
                 ELSE IF Held(inbound[1])
                 THEN emit(final, Caption(inbound[1]), react)
                 ELSE final

\* socket.onmessage marking every caption final
onmessage_AlwaysFinal(w, m, react) ==
    IF ~m.json THEN w
    ELSE IF HasTranscript(m)
    THEN emit(w, [text |-> m.transcript,
                  speaker |-> <<"Speaker", SpeakerOf(m)>>,
                  isFinal |-> "true"], react)
    ELSE w

\* JSON.parse(message.data) throws a SyntaxError on data that is no JSON
\* text; nothing in the handler catches it
parseThrows(m) == ~m.json

\* socket.onmessage: when JSON.parse throws, the handler ends there
onmessage(w, m, react) ==
    IF parseThrows(m) THEN w
    ELSE IF HasTranscript(m)
    THEN emit(w, [text |-> m.transcript,
                  speaker |-> <<"Speaker", SpeakerOf(m)>>,
                  isFinal |-> m.is_final], react)
    ELSE w

(* ---------------------------- inbound frames --------------------------- *)

\* message.data of one inbound frame.  json: the data parses; hasError: a
\* top-level error field; alt: channel.alternatives[0] exists; words:
\* "absent" | "empty" | "untagged" (first word has no speaker) | "tagged";
\* is_final: "true" | "false" | "undefined"
Msg(json, hasError, alt, hasTranscript, transcript, words, speaker, is_final) ==
    [json |-> json, hasError |-> hasError, alt |-> alt,
     hasTranscript |-> hasTranscript, transcript |-> transcript,
     words |-> words, speaker |-> speaker, is_final |-> is_final]

Garbage == Msg(FALSE, FALSE, FALSE, FALSE, <<>>, "absent", 0, "undefined")
ErrorOnly == Msg(TRUE, TRUE, FALSE, FALSE, <<>>, "absent", 0, "undefined")
ErrorWithText == Msg(TRUE, TRUE, TRUE, TRUE, <<"hi">>, "absent", 0, "true")
NoAlternative == Msg(TRUE, FALSE, FALSE, FALSE, <<>>, "absent", 0, "false")
NoTranscript == Msg(TRUE, FALSE, TRUE, FALSE, <<>>, "empty", 0, "true")
EmptyTranscript == Msg(TRUE, FALSE, TRUE, TRUE, <<>>, "empty", 0, "true")
Interim == Msg(TRUE, FALSE, TRUE, TRUE, <<"hi">>, "untagged", 0, "false")
Final == Msg(TRUE, FALSE, TRUE, TRUE, <<"hi", "there">>, "tagged", 1, "true")
Unmarked == Msg(TRUE, FALSE, TRUE, TRUE, <<"hi">>, "absent", 0, "undefined")

Messages ==
    {Garbage, ErrorOnly, ErrorWithText, NoAlternative, NoTranscript,
     EmptyTranscript, Interim, Final, Unmarked}

\* event.data.size of an encoded chunk
ChunkSizes == {0, 1}

\* close codes a close event can carry
CloseCodes == {1000, 1006, 4001}

(* ------------------------------- start() ------------------------------- *)

NextCall == Cardinality({i \in Sessions : calls[i].st # "unused"}) + 1

\* start(deviceId) without the guard on isConnected
Start_NoGuard(deviceId) ==
    /\ NextCall \in Sessions
    /\ calls' = [calls EXCEPT ![NextCall] =
                    [st |-> "fetching", deviceId |-> deviceId, err |-> ""]]
    /\ UNCHANGED <<peerVars, variant, this, sockets, audioContexts, destStreams,
                   getUserMedia, micStreams, micNodes, screenNodes, recorders,
                   deliveries, errorVars, notified, deviceVars, inboundVars, chunkVars,
                   sinceStop>>

\* start(deviceId) up to its first await, as it acts on DeepgramService
startBegins(deviceId) ==
    /\ NextCall \in Sessions
    /\ calls' = [calls EXCEPT ![NextCall] =
                    IF this.isConnected
                    THEN [st |-> "noop", deviceId |-> "", err |-> ""]
                    ELSE [st |-> "fetching", deviceId |-> deviceId, err |-> ""]]
    /\ UNCHANGED <<variant, this, sockets, audioContexts, destStreams,
                   getUserMedia, micStreams, micNodes, screenNodes, recorders,
                   deliveries, errorVars, notified, deviceVars, inboundVars, chunkVars,
                   sinceStop>>

\* start(deviceId) up to its first await
Start(deviceId) ==
    /\ startBegins(deviceId)
    /\ UNCHANGED peerVars

\* start() without the check of the key
StartResume_NoKeyCheck(i, resp) ==
    /\ calls[i].st = "fetching"
    /\ IF ~resp.fetched
       THEN /\ calls' = [calls EXCEPT ![i] = [st |-> "rejected", deviceId |-> "",
                                             err |-> "fetch failed"]]
            /\ UNCHANGED <<this, sockets, sinceStop>>
       ELSE /\ calls' = [calls EXCEPT ![i].st = "resolved"]
            /\ sockets' = [sockets EXCEPT ![i] = 0]
            /\ this' = [this EXCEPT !.socket = i]
            /\ sinceStop' = [sinceStop EXCEPT !.connections = @ + 1]
    /\ UNCHANGED <<peerVars, variant, audioContexts, destStreams, getUserMedia,
                   micStreams, micNodes, screenNodes, recorders,
                   deliveries, errorVars, notified, deviceVars, inboundVars, chunkVars>>

\* start() after the credential fetch settled with response resp, as it
\* acts on DeepgramService
startResumes(i, resp) ==
    /\ calls[i].st = "fetching"
    /\ IF ~resp.fetched
       THEN /\ calls' = [calls EXCEPT ![i] = [st |-> "rejected", deviceId |-> "",
                                             err |-> "fetch failed"]]
            /\ UNCHANGED <<this, sockets, sinceStop>>
       ELSE IF resp.body.key = ""
       THEN /\ calls' = [calls EXCEPT ![i] = [st |-> "rejected", deviceId |-> "",
                                             err |-> "No Deepgram API key found"]]
            /\ UNCHANGED <<this, sockets, sinceStop>>
       ELSE /\ calls' = [calls EXCEPT ![i].st = "resolved"]
            /\ sockets' = [sockets EXCEPT ![i] = 0]
            /\ this' = [this EXCEPT !.socket = i]
            /\ sinceStop' = [sinceStop EXCEPT !.connections = @ + 1]
    /\ UNCHANGED <<variant, audioContexts, destStreams, getUserMedia,
                   micStreams, micNodes, screenNodes, recorders,
                   deliveries, errorVars, notified, deviceVars, inboundVars, chunkVars>>

\* start() after the credential fetch settled with response resp
StartResume(i, resp) ==
    /\ startResumes(i, resp)
    /\ UNCHANGED peerVars

(* ------------------------ WebSocket event handlers --------------------- *)

\* socket.onopen of socket k
OnOpen(k) ==
    /\ sockets[k] = 0
    /\ Commit(startAudioProcessing(
                [World EXCEPT !.sockets[k] = 1, !.this.isConnected = TRUE],
                k, calls[k].deviceId))
    /\ sinceStop' = [sinceStop EXCEPT !.acquisitions = @ + 1]
    /\ calls' = [calls EXCEPT ![k].deviceId = ""]
    /\ UNCHANGED <<peerVars, variant, errorVars, notified, deviceVars, inboundVars, chunkVars>>

\* socket.onmessage of socket k for the inbound frame m, with callbacks
\* that do react when they are called
OnMessage(k, m, react) ==
    /\ sockets[k] = 1
    /\ handled < MaxMsgs
    /\ Len(onmessage(World, m, react).this.listeners) <= MaxSubs
    /\ handled' = handled + 1
    /\ inbound' = <<m>> \o inbound
    /\ reactions' = react
    /\ Commit(onmessage(World, m, react))
    /\ UNCHANGED <<peerVars, variant, calls, errorVars, notified, deviceVars, chunkVars, sinceStop>>

\* socket.onclose of socket k, whatever the close code
OnClose(k, code) ==
    /\ sockets[k] \in {0, 1, 2}
    /\ Commit(stop([World EXCEPT !.sockets[k] = 3,
                                 !.this.isConnected = FALSE]))
    /\ sinceStop' = [connections |-> 0, acquisitions |-> 0, deferred |-> NULL]
    /\ calls' = [calls EXCEPT ![k].deviceId = ""]
    /\ UNCHANGED <<peerVars, variant, errorVars, notified, deviceVars, inboundVars, chunkVars>>

\* socket.onerror of socket k: logged only
OnError(k) ==
    /\ sockets[k] \in {0, 1}
    /\ notified < MaxTransportErrors
    /\ notified' = notified + 1
    /\ UNCHANGED <<peerVars, variant, this, calls, sockets, audioContexts, destStreams,
                   getUserMedia, micStreams, micNodes, screenNodes, recorders,
                   deliveries, errorVars, deviceVars, inboundVars, chunkVars,
                   sinceStop>>

(* --------------------- getUserMedia settles ---------------------------- *)

GumResolve(k, recorder) ==
    /\ getUserMedia[k].state = "pending"
    /\ getUserMedia[k].audio \in {"default"} \cup AvailableDevices
    /\ Commit(resumeAudioProcessing(World, k, recorder))
    /\ sinceStop' = [sinceStop EXCEPT !.deferred =
                        IF this.audioContext # NULL THEN NULL ELSE @]
    /\ ran' = ran \cup {r \in Sessions : recorders'[r].state = "recording"}
    /\ UNCHANGED <<peerVars, variant, calls, errorVars, notified, deviceVars,
                   inboundVars, outbound, produced>>

GumReject(k) ==
    /\ getUserMedia[k].state = "pending"
    /\ Commit(failAudioProcessing(World, k))
    /\ UNCHANGED <<peerVars, variant, calls, errorVars, notified, deviceVars, inboundVars, chunkVars,
                   sinceStop>>

\* recorder r hands over an encoded chunk: every 250 ms while it records,
\* and once more after it was stopped
OnDataAvailable(r, size) ==
    /\ \/ recorders[r].state = "recording"
       \/ recorders[r].state = "inactive" /\ r \in ran
    /\ produced < MaxChunks
    /\ produced' = produced + 1
    /\ outbound' = <<[recorder |-> r, size |-> size,
                      sentOn |-> ondataavailable(World, size)]>>
    /\ UNCHANGED <<peerVars, variant, this, calls, sockets, audioContexts, destStreams,
                   getUserMedia, micStreams, micNodes, screenNodes, recorders,
                   deliveries, errorVars, notified, deviceVars, inboundVars, ran, sinceStop>>

(* ----------------------------- caller's API ---------------------------- *)

\* a call of stop(), as it acts on DeepgramService
stops ==
    /\ Commit(stop(World))
    /\ sinceStop' = [connections |-> 0, acquisitions |-> 0, deferred |-> NULL]
    /\ UNCHANGED <<variant, calls, errorVars, notified, deviceVars, inboundVars, chunkVars>>

Stop ==
    /\ stops
    /\ UNCHANGED peerVars

AddScreenShareAudio(stream) ==
    /\ Commit(addScreenShareAudio(World, stream))
    /\ sinceStop' = [sinceStop EXCEPT !.deferred =
                        IF /\ this.audioContext = NULL \/ this.destination = NULL
                           /\ AudioTrackCount(stream) > 0
                        THEN stream
                        ELSE NULL]
    /\ UNCHANGED <<peerVars, variant, calls, errorVars, notified, deviceVars, inboundVars, chunkVars>>

RemoveScreenShareAudio ==
    /\ Commit(removeScreenShareAudio(World))
    /\ sinceStop' = [sinceStop EXCEPT !.deferred = NULL]
    /\ UNCHANGED <<peerVars, variant, calls, errorVars, notified, deviceVars, inboundVars, chunkVars>>

\* onCaption(callback): listeners.push(callback)
OnCaption(callback) ==
    /\ Len(this.listeners) < MaxSubs
    /\ this' = [this EXCEPT !.listeners = Append(@, callback)]
    /\ UNCHANGED <<peerVars, variant, calls, sockets, audioContexts, destStreams,
                   getUserMedia, micStreams, micNodes, screenNodes, recorders,
                   deliveries, errorVars, notified, deviceVars, inboundVars, chunkVars,
                   sinceStop>>

\* the closure onCaption(callback) returned is invoked
Unsubscribe(callback) ==
    /\ this' = [this EXCEPT !.listeners = unsubscribe(@, callback)]
    /\ UNCHANGED <<peerVars, variant, calls, sockets, audioContexts, destStreams,
                   getUserMedia, micStreams, micNodes, screenNodes, recorders,
                   deliveries, errorVars, notified, deviceVars, inboundVars, chunkVars,
                   sinceStop>>

\* onError(callback), as the sidebar calls it
SubscribeError(callback) ==
    /\ Len(errorListeners) < MaxErrorSubs
    /\ errorListeners' = Append(errorListeners, callback)
    /\ UNCHANGED <<peerVars, variant, this, calls, sockets, audioContexts, destStreams,
                   getUserMedia, micStreams, micNodes, screenNodes, recorders,
                   deliveries, errorEvents, notified, deviceVars, inboundVars,
                   chunkVars,
                   sinceStop>>

(* --------------------------- getAudioDevices() ------------------------- *)

\* a MediaDeviceInfo
Device(kind, deviceId) == [kind |-> kind, deviceId |-> deviceId]

\* what navigator.mediaDevices.enumerateDevices() can resolve with
Enumerations ==
    { <<>>,
      <<Device("audiooutput", "spk1")>>,
      <<Device("audioinput", "mic1")>>,
      <<Device("videoinput", "cam1"), Device("audioinput", "mic1"),
        Device("audiooutput", "spk1"), Device("audioinput", "mic2")>> }

\* the list as enumerateDevices() resolved with it
audioInputs_AnyKind(devices) == devices

\* devices.filter(device => device.kind === 'audioinput')
audioInputs(devices) ==
    SelectSeq(devices, LAMBDA device : device.kind = "audioinput")

\* getAudioDevices() up to its first await: getUserMedia({ audio: true })
GetAudioDevices ==
    /\ IF deviceQuery = <<>> THEN TRUE
       ELSE deviceQuery[1].promise # "pending"
    /\ probes < MaxProbes
    /\ deviceQuery' = <<[promise |-> "pending",
                         asked |-> <<"getUserMedia">>,
                         failed |-> FALSE,
                         enumerated |-> <<>>,
                         value |-> <<>>]>>
    /\ UNCHANGED <<peerVars, variant, this, calls, sockets, audioContexts, destStreams,
                   getUserMedia, micStreams, micNodes, screenNodes, recorders,
                   deliveries, errorVars, inboundVars, chunkVars, sinceStop,
                   notified, probes>>

\* the permission request resolves with a stream, which stays open; the
\* method goes on to its second await: enumerateDevices()
PermissionGranted ==
    /\ deviceQuery # <<>>
    /\ deviceQuery[1].promise = "pending"
    /\ deviceQuery[1].asked = <<"getUserMedia">>
    /\ probes' = probes + 1
    /\ deviceQuery' = [deviceQuery EXCEPT ![1].asked =
                            Append(@, "enumerateDevices")]
    /\ UNCHANGED <<peerVars, variant, this, calls, sockets, audioContexts, destStreams,
                   getUserMedia, micStreams, micNodes, screenNodes, recorders,
                   deliveries, errorVars, inboundVars, chunkVars, sinceStop,
                   notified>>

\* the permission request rejects: the catch block returns []
PermissionDenied ==
    /\ deviceQuery # <<>>
    /\ deviceQuery[1].promise = "pending"
    /\ deviceQuery[1].asked = <<"getUserMedia">>
    /\ deviceQuery' = [deviceQuery EXCEPT ![1].promise = "resolved",
                                          ![1].failed = TRUE,
                                          ![1].value = <<>>]
    /\ UNCHANGED <<peerVars, variant, this, calls, sockets, audioContexts, destStreams,
                   getUserMedia, micStreams, micNodes, screenNodes, recorders,
                   deliveries, errorVars, inboundVars, chunkVars, sinceStop,
                   notified, probes>>

\* enumerateDevices() resolves with devices: the filtered list is returned
Enumerated(devices) ==
    /\ deviceQuery # <<>>
    /\ deviceQuery[1].promise = "pending"
    /\ deviceQuery[1].asked = <<"getUserMedia", "enumerateDevices">>
    /\ deviceQuery' = [deviceQuery EXCEPT ![1].promise = "resolved",
                                          ![1].enumerated = devices,
                                          ![1].value = audioInputs(devices)]
    /\ UNCHANGED <<peerVars, variant, this, calls, sockets, audioContexts, destStreams,
                   getUserMedia, micStreams, micNodes, screenNodes, recorders,
                   deliveries, errorVars, inboundVars, chunkVars, sinceStop,
                   notified, probes>>

\* enumerateDevices() rejects: the catch block returns []
EnumerationFails ==
    /\ deviceQuery # <<>>
    /\ deviceQuery[1].promise = "pending"
    /\ deviceQuery[1].asked = <<"getUserMedia", "enumerateDevices">>
    /\ deviceQuery' = [deviceQuery EXCEPT ![1].promise = "resolved",
                                          ![1].failed = TRUE,
                                          ![1].value = <<>>]
    /\ UNCHANGED <<peerVars, variant, this, calls, sockets, audioContexts, destStreams,
                   getUserMedia, micStreams, micNodes, screenNodes, recorders,
                   deliveries, errorVars, inboundVars, chunkVars, sinceStop,
                   notified, probes>>

(* -------------------------- GoogleSpeechService ------------------------ *)

NextTranscription ==
    Cardinality({k \in Transcriptions : transcriptions[k] # "unused"}) + 1

\* startTranscription(languageCode) up to its await of getUserMedia
StartTranscription(languageCode) ==
    /\ NextTranscription \in Transcriptions
    /\ IF google.isRecording
       THEN /\ transcriptions' =
                    [transcriptions EXCEPT ![NextTranscription] = "noop"]
            /\ UNCHANGED google
       ELSE /\ transcriptions' =
                    [transcriptions EXCEPT ![NextTranscription] = "awaiting"]
            /\ google' = [google EXCEPT !.currentLanguage = languageCode]
    /\ gStopped' = FALSE
    /\ UNCHANGED <<notGoogleVars, gStreams, gContexts, gProcessors,
                   audioChunks, gDeliveries>>

\* startTranscription after getUserMedia resolved with stream k: context,
\* source and processor are created and connected, isRecording = true
TranscriptionResumes(k) ==
    /\ transcriptions[k] = "awaiting"
    /\ transcriptions' = [transcriptions EXCEPT ![k] = "resolved"]
    /\ gStreams' = [gStreams EXCEPT ![k] = "live"]
    /\ gContexts' = [gContexts EXCEPT ![k] = "running"]
    /\ gProcessors' = [gProcessors EXCEPT ![k] = "connected"]
    /\ google' = [google EXCEPT !.mediaStream = k, !.audioContext = k,
                                !.processor = k, !.isRecording = TRUE]
    /\ UNCHANGED <<notGoogleVars, audioChunks, gDeliveries, gStopped>>

\* startTranscription after getUserMedia rejected: logged and rethrown
TranscriptionFails(k) ==
    /\ transcriptions[k] = "awaiting"
    /\ transcriptions' = [transcriptions EXCEPT ![k] = "rejected"]
    /\ UNCHANGED <<notGoogleVars, google, gStreams, gContexts, gProcessors,
                   audioChunks, gDeliveries, gStopped>>

\* stopTranscription()
StopTranscription ==
    /\ gStopped' = TRUE
    /\ IF ~google.isRecording
       THEN UNCHANGED <<google, gStreams, gContexts, gProcessors>>
       ELSE /\ gProcessors' = IF google.processor # NULL
                              THEN [gProcessors EXCEPT ![google.processor] =
                                        "disconnected"]
                              ELSE gProcessors
            /\ gContexts' = IF google.audioContext # NULL
                            THEN [gContexts EXCEPT ![google.audioContext] =
                                        "closed"]
                            ELSE gContexts
            /\ gStreams' = IF google.mediaStream # NULL
                           THEN [gStreams EXCEPT ![google.mediaStream] =
                                        "stopped"]
                           ELSE gStreams
            /\ google' = [google EXCEPT !.isRecording = FALSE,
                                        !.processor = NULL,
                                        !.audioContext = NULL,
                                        !.mediaStream = NULL]
    /\ UNCHANGED <<notGoogleVars, transcriptions, audioChunks, gDeliveries>>

\* processor.onaudioprocess of processor p, up to the await of fetch in
\* processAudioChunk: the request carries the language of that moment
OnAudioProcess(p) ==
    /\ gProcessors[p] = "connected"
    /\ gContexts[p] = "running"
    /\ Len(audioChunks) < MaxAudioChunks
    /\ audioChunks' = IF google.isRecording
                      THEN Append(audioChunks,
                                  [processor |-> p, request |-> "inFlight",
                                   languageCode |-> google.currentLanguage])
                      ELSE audioChunks
    /\ UNCHANGED <<notGoogleVars, google, transcriptions, gStreams, gContexts,
                   gProcessors, gDeliveries, gStopped>>

\* emitCaption(caption): listeners.forEach(callback => callback(caption))
emitCaption(listeners, caption) ==
    [i \in 1..Len(listeners) |-> [cb |-> listeners[i], caption |-> caption]]

\* processAudioChunk of chunk c after its fetch ended with result: the
\* calls of the caption callbacks it makes
processAudioChunk(c, result) ==
    IF result = "transcript"
    THEN emitCaption(google.listeners,
                     [text |-> c, speaker |-> "You",
                      language |-> google.currentLanguage])
    ELSE <<>>

\* the /api/transcribe call of chunk c ends
TranscribeSettles(c, result) ==
    /\ c \in 1..Len(audioChunks)
    /\ audioChunks[c].request = "inFlight"
    /\ audioChunks' = [audioChunks EXCEPT ![c].request = result]
    /\ gDeliveries' = gDeliveries \o processAudioChunk(c, result)
    /\ UNCHANGED <<notGoogleVars, google, transcriptions, gStreams, gContexts,
                   gProcessors, gStopped>>

\* googleSpeechService.onCaption(callback)
OnGoogleCaption(callback) ==
    /\ Len(google.listeners) < MaxSubs
    /\ google' = [google EXCEPT !.listeners = Append(@, callback)]
    /\ UNCHANGED <<notGoogleVars, transcriptions, gStreams, gContexts,
                   gProcessors, audioChunks, gDeliveries, gStopped>>

\* the closure googleSpeechService.onCaption(callback) returned is invoked:
\* this.listeners = this.listeners.filter((cb) => cb !== callback)
GoogleUnsubscribe(callback) ==
    /\ google' = [google EXCEPT !.listeners = unsubscribe(@, callback)]
    /\ UNCHANGED <<notGoogleVars, transcriptions, gStreams, gContexts,
                   gProcessors, audioChunks, gDeliveries, gStopped>>

(* ---------------------------- WebSpeechService ------------------------- *)

\* the state one call or handler of WebSpeechService works on
WebWorld == [web |-> web, recognizer |-> recognizer, starts |-> webHistory.starts]

\* recognition.start(): throws unless the recognizer is idle
recognitionStart(w) ==
    IF w.recognizer = "idle"
    THEN [w EXCEPT !.recognizer = "started", !.starts = @ + 1]
    ELSE [w EXCEPT !.starts = @ + 1]

\* WebSpeechService.start()
webStart(w) ==
    IF w.web.recognition = NULL THEN w
    ELSE IF w.web.isListening THEN w
    ELSE IF w.recognizer = "idle"
    THEN [recognitionStart(w) EXCEPT !.web.isListening = TRUE]
    ELSE recognitionStart(w)

\* WebSpeechService.stop()
webStop(w) ==
    IF w.web.recognition = NULL THEN w
    ELSE [w EXCEPT !.web.isListening = FALSE,
                   !.recognizer = IF @ = "started" THEN "stopping" ELSE @]

\* an end handler that restarts the recognizer whatever isListening says
onend_AlwaysRestarts(w) ==
    recognitionStart(w)

\* recognition.onend
onend(w) ==
    IF w.web.isListening THEN recognitionStart(w) ELSE w

\* one call or event op of WebSpeechService took the state to w
WebCommit(op, w, meant) ==
    /\ webHistory.ops < MaxWebOps
    /\ web' = w.web
    /\ recognizer' = w.recognizer
    /\ webHistory' = [ops |-> webHistory.ops + 1, last |-> op,
                      starts |-> w.starts, meant |-> meant]
    /\ UNCHANGED notWebVars

WebStart ==
    WebCommit("start", webStart(WebWorld),
              \/ webHistory.meant
              \/ web.recognition # NULL /\ recognizer = "idle")

WebStop ==
    WebCommit("stop", webStop(WebWorld),
              webHistory.meant /\ web.recognition = NULL)

\* the recognizer ends, on its own or after stop(), and fires its end event
RecognitionEnds ==
    /\ recognizer \in {"started", "stopping"}
    /\ WebCommit("end", onend([WebWorld EXCEPT !.recognizer = "idle"]),
                 webHistory.meant)

(* -------------------------- TranscriptionSidebar ----------------------- *)

\* the caption callback the sidebar subscribes with
SidebarCallback == "cbA"

\* the effect run at mount: deepgramService.onCaption(callback)
Mount ==
    /\ sidebar.phase = "notMounted"
    /\ sidebar' = [sidebar EXCEPT !.phase = "mounted"]
    /\ this' = [this EXCEPT !.listeners = Append(@, SidebarCallback)]
    /\ UNCHANGED <<googleVars, webVars, routeVars, variant, calls, sockets,
                   audioContexts, destStreams, getUserMedia, micStreams,
                   micNodes, screenNodes, recorders, deliveries, errorVars,
                   notified, deviceVars, inboundVars, chunkVars, sinceStop>>

\* the cleanup of that effect: unsubscribe(); if (deepgramService.isActive())
\* deepgramService.stop()
cleanup(w) ==
    LET w1 == [w EXCEPT !.this.listeners = unsubscribe(@, SidebarCallback)]
    IN  IF isActive(w1) THEN stop(w1) ELSE w1

\* the sidebar unmounts
Unmount ==
    /\ sidebar.phase = "mounted"
    /\ sidebar' = [sidebar EXCEPT !.phase = "unmounted"]
    /\ Commit(cleanup(World))
    /\ sinceStop' = IF isActive(World)
                    THEN [connections |-> 0, acquisitions |-> 0,
                          deferred |-> NULL]
                    ELSE sinceStop
    /\ UNCHANGED <<googleVars, webVars, routeVars, variant, calls, errorVars,
                   notified, deviceVars, inboundVars, chunkVars>>

\* handleStartStop, a press of the Start/Stop button, up to its await:
\* stop() and setIsRecording(false) while recording, else setError(null)
\* and start(); a start() that returns at its guard resolves at once, and
\* setIsRecording(true) follows
HandleStartStop ==
    /\ sidebar.phase = "mounted"
    /\ IF sidebar.isRecording
       THEN /\ stops
            /\ sidebar' = [sidebar EXCEPT !.isRecording = FALSE]
       ELSE /\ startBegins("")
            /\ sidebar' = [sidebar EXCEPT !.error = "",
                                          !.isRecording = this.isConnected]
    /\ UNCHANGED <<googleVars, webVars, routeVars>>

\* start() call i settles and handleStartStop resumes after its await:
\* setIsRecording(true) when start() resolved, setError(...) when it
\* rejected; state set after the unmount is dropped
HandleStartStopResumes(i, resp) ==
    /\ startResumes(i, resp)
    /\ sidebar' = IF sidebar.phase # "mounted" THEN sidebar
                  ELSE IF calls'[i].st = "resolved"
                  THEN [sidebar EXCEPT !.isRecording = TRUE]
                  ELSE [sidebar EXCEPT !.error = "Failed to start"]
    /\ UNCHANGED <<googleVars, webVars, routeVars>>

\* the captions state of the sidebar: its callback appends the captions
\* whose isFinal is true
captions ==
    SelectSeq(deliveries, LAMBDA d : /\ d.cb = SidebarCallback
                                     /\ d.caption.isFinal = "true")

(* ------------------------- POST /api/transcribe ------------------------ *)

\* a request with what the route's collaborators will answer.  parses:
\* req.json() resolves; audio, languageCode, translateTo: "" stands for a
\* missing, null or empty field; apiKey: GOOGLE_CLOUD_API_KEY, "" when not
\* set; speech: how the call of the Speech API ends; translation: how the
\* call of the Translation API would end
TranscribeRequests ==
    [parses : BOOLEAN,
     audio : {"", "pcm"},
     languageCode : {"", "en-US", "es-ES"},
     translateTo : {"", "en-US", "es-ES"},
     apiKey : {"", "key"},
     speech : {"throws", "status403", "status503", "badBody", "noResults",
               "transcript"},
     translation : {"throws", "notOk", "noTranslations", "translated"}]

\* NextResponse.json(body, { status }); error "" = no error field,
\* hasTranscript FALSE = no transcript field, translatedText "" = undefined
Response(status, error, hasTranscript, transcript, translatedText, made) ==
    [status |-> status, error |-> error, hasTranscript |-> hasTranscript,
     transcript |-> transcript, translatedText |-> translatedText,
     calls |-> made]

\* the answers of the route up to the transcript, for a request that parsed
\* and has audio and a key; none = the transcript was obtained
SpeechAnswer(r) ==
    IF r.speech = "throws" \/ r.speech = "badBody"
    THEN <<Response(500, "Internal server error", FALSE, "", "",
                    <<"speech">>)>>
    ELSE IF r.speech = "status403"
    THEN <<Response(403, "Speech recognition failed", FALSE, "", "",
                    <<"speech">>)>>
    ELSE IF r.speech = "status503"
    THEN <<Response(503, "Speech recognition failed", FALSE, "", "",
                    <<"speech">>)>>
    ELSE IF r.speech = "noResults"
    THEN <<Response(200, "", TRUE, "", "", <<"speech">>)>>
    ELSE <<>>

\* translateTo && translateTo !== languageCode
wantsTranslation(r) ==
    r.translateTo # "" /\ r.translateTo # r.languageCode

\* POST(req): the response, with the upstream calls made on the way
POST(r) ==
    IF ~r.parses
    THEN Response(500, "Internal server error", FALSE, "", "", <<>>)
    ELSE IF r.audio = ""
    THEN Response(400, "No audio data provided", FALSE, "", "", <<>>)
    ELSE IF r.apiKey = ""
    THEN Response(500, "Transcription service not configured", FALSE, "", "",
                  <<>>)
    ELSE IF SpeechAnswer(r) # <<>>
    THEN SpeechAnswer(r)[1]
    ELSE IF wantsTranslation(r)
    THEN Response(200, "", TRUE, "hello",
                  IF r.translation = "translated" THEN "hola" ELSE "",
                  <<"speech", "translate">>)
    ELSE Response(200, "", TRUE, "hello", "", <<"speech">>)

\* the route handles request r
Transcribe(r) ==
    /\ exchange = <<>>
    /\ exchange' = <<[request |-> r, response |-> POST(r)]>>
    /\ UNCHANGED <<deepgramVars, googleVars, webVars, uiVars>>

(* ----------------------------- specification --------------------------- *)

Init ==
    /\ variant \in Variants
    /\ this = [socket |-> NULL, mediaRecorder |-> NULL, listeners |-> <<>>,
               isConnected |-> FALSE, audioContext |-> NULL,
               destination |-> NULL, micSource |-> NULL,
               screenSource |-> NULL, micStream |-> NULL,
               screenStream |-> NULL]
    /\ calls = [i \in Sessions |-> [st |-> "unused", deviceId |-> "", err |-> ""]]
    /\ sockets = [k \in Sessions |-> -1]
    /\ audioContexts = [k \in Sessions |-> "none"]
    /\ destStreams = [k \in Sessions |-> "none"]
    /\ getUserMedia = [k \in Sessions |-> [state |-> "none", audio |-> "default"]]
    /\ micStreams = [k \in Sessions |-> "none"]
    /\ micNodes = [k \in Sessions |-> [ctx |-> NULL, conn |-> NULL]]
    /\ screenNodes = [n \in ScreenNodeIds |-> NoNode]
    /\ recorders = [k \in Sessions |-> [state |-> "none", stream |-> NULL]]
    /\ deliveries = <<>>
    /\ errorListeners = <<>>
    /\ errorEvents = <<>>
    /\ inbound = <<>>
    /\ handled = 0
    /\ reactions = Quiet
    /\ outbound = <<>>
    /\ produced = 0
    /\ ran = {}
    /\ sinceStop = [connections |-> 0, acquisitions |-> 0, deferred |-> NULL]
    /\ notified = 0
    /\ deviceQuery = <<>>
    /\ probes = 0
    /\ google = [mediaStream |-> NULL, audioContext |-> NULL,
                 processor |-> NULL, isRecording |-> FALSE,
                 listeners |-> <<>>, currentLanguage |-> "en-US"]
    /\ transcriptions = [k \in Transcriptions |-> "unused"]
    /\ gStreams = [k \in Transcriptions |-> "none"]
    /\ gContexts = [k \in Transcriptions |-> "none"]
    /\ gProcessors = [k \in Transcriptions |-> "none"]
    /\ audioChunks = <<>>
    /\ gDeliveries = <<>>
    /\ gStopped = FALSE
    /\ web \in [recognition : {NULL, 1}, isListening : {FALSE}]
    /\ recognizer = "idle"
    /\ webHistory = [ops |-> 0, last |-> "none", starts |-> 0,
                     meant |-> FALSE]
    /\ sidebar = [phase |-> "notMounted", isRecording |-> FALSE,
                  error |-> ""]
    /\ exchange = <<>>

\* the session after start() was called: stop() and the WebSocket's life
Session ==
    \/ \E i \in Sessions, resp \in TokenResponses : StartResume(i, resp)
    \/ \E k \in Sessions : OnOpen(k)
    \/ \E k \in Sessions, code \in CloseCodes : OnClose(k, code)
    \/ \E k \in Sessions : OnError(k)
    \/ Stop

\* the audio pipeline: microphone acquisition and the screen-share source
Audio ==
    \/ \E k \in Sessions, recorder \in RecorderOutcomes : GumResolve(k, recorder)
    \/ \E k \in Sessions : GumReject(k)
    \/ \E s \in ScreenStreams : AddScreenShareAudio(s)
    \/ RemoveScreenShareAudio

\* the event bus: subscriptions and inbound frames
Bus ==
    \/ \E cb \in Callbacks : OnCaption(cb)
    \/ \E cb \in Callbacks : Unsubscribe(cb)
    \/ \E cb \in ErrorCallbacks : SubscribeError(cb)
    \/ \E k \in Sessions, m \in Messages : OnMessage(k, m, Quiet)

Next ==
    \/ \E d \in DeviceIds : Start(d)
    \/ Session
    \/ Audio

Spec == Init /\ [][Next]_vars

\* the bus in the session of one start() call; the bus never reads the
\* deviceId, so start() is called without one
NextBus ==
    \/ NextCall = 1 /\ Start("")
    \/ Session
    \/ Bus

SpecBus == Init /\ [][NextBus]_vars

\* the bus with callbacks that subscribe and unsubscribe while a caption is
\* being delivered to them
NextEmit ==
    \/ NextCall = 1 /\ Start("")
    \/ \E i \in Sessions, resp \in TokenResponses : StartResume(i, resp)
    \/ \E k \in Sessions : OnOpen(k)
    \/ \E cb \in Callbacks : OnCaption(cb)
    \/ \E cb \in Callbacks : Unsubscribe(cb)
    \/ \E k \in Sessions, m \in Messages, react \in [Callbacks -> Reactions] :
            OnMessage(k, m, react)

SpecEmit == Init /\ [][NextEmit]_vars

\* the microphone pipeline from acquisition to the chunks sent, with error
\* subscribers
NextPipe ==
    \/ \E d \in DeviceIds : Start(d)
    \/ Session
    \/ \E k \in Sessions, recorder \in RecorderOutcomes : GumResolve(k, recorder)
    \/ \E k \in Sessions : GumReject(k)
    \/ \E r \in Sessions, size \in ChunkSizes : OnDataAvailable(r, size)
    \/ \E cb \in ErrorCallbacks : SubscribeError(cb)

SpecPipe == Init /\ [][NextPipe]_vars

\* getAudioDevices() called before, during and after the session of one
\* start() call
NextDevices ==
    \/ NextCall = 1 /\ Start("")
    \/ \E i \in Sessions, resp \in TokenResponses : StartResume(i, resp)
    \/ \E k \in Sessions : OnOpen(k)
    \/ \E k \in Sessions, recorder \in RecorderOutcomes : GumResolve(k, recorder)
    \/ Stop
    \/ GetAudioDevices
    \/ PermissionGranted
    \/ PermissionDenied
    \/ \E devices \in Enumerations : Enumerated(devices)
    \/ EnumerationFails

SpecDevices == Init /\ [][NextDevices]_vars

\* GoogleSpeechService: its sessions, its audio chunks and its subscribers
NextGoogle ==
    \/ \E l \in Languages : StartTranscription(l)
    \/ \E k \in Transcriptions : TranscriptionResumes(k)
    \/ \E k \in Transcriptions : TranscriptionFails(k)
    \/ StopTranscription
    \/ \E p \in Transcriptions : OnAudioProcess(p)
    \/ \E c \in 1..MaxAudioChunks, result \in TranscribeResults :
            TranscribeSettles(c, result)
    \/ \E cb \in Callbacks : OnGoogleCaption(cb)
    \/ \E cb \in Callbacks : GoogleUnsubscribe(cb)

SpecGoogle == Init /\ [][NextGoogle]_vars

\* WebSpeechService: its calls and the end events of its recognizer
NextWeb ==
    \/ WebStart
    \/ WebStop
    \/ RecognitionEnds

SpecWeb == Init /\ [][NextWeb]_vars

\* the sidebar with DeepgramService: presses of its Start/Stop button
\* while it is mounted, and the unmount; start() is not called after the
\* unmount; the frames are transcripts, interim or final
NextSidebar ==
    \/ Mount
    \/ HandleStartStop
    \/ Unmount
    \/ \E i \in Sessions, resp \in TokenResponses :
            HandleStartStopResumes(i, resp)
    \/ \E k \in Sessions : OnOpen(k)
    \/ \E k \in Sessions, code \in CloseCodes : OnClose(k, code)
    \/ \E k \in Sessions, recorder \in RecorderOutcomes : GumResolve(k, recorder)
    \/ \E k \in Sessions : GumReject(k)
    \/ \E k \in Sessions, m \in {Interim, Final} : OnMessage(k, m, Quiet)

SpecSidebar == Init /\ [][NextSidebar]_vars

\* the transcribe route answering requests
NextRoute == \E r \in TranscribeRequests : Transcribe(r)

SpecRoute == Init /\ [][NextRoute]_vars

\* the bus with callbacks that can throw while a caption is delivered
NextThrow ==
    \/ NextCall = 1 /\ Start("")
    \/ \E i \in Sessions, resp \in TokenResponses : StartResume(i, resp)
    \/ \E k \in Sessions : OnOpen(k)
    \/ \E cb \in Callbacks : OnCaption(cb)
    \/ \E cb \in Callbacks : Unsubscribe(cb)
    \/ \E k \in Sessions, m \in Messages, react \in Fragile :
            OnMessage(k, m, react)

SpecThrow == Init /\ [][NextThrow]_vars

(* ================================ claims =============================== *)

(* ----- under Spec: the session, the microphone and the screen share ---- *)

\* C1: between two runs of stop(), start() calls create at most one
\* connection and trigger primary audio acquisition at most once, whenever
\* the later calls are issued.
C1_SecondStartIsNoOp ==
    /\ sinceStop.connections <= 1
    /\ sinceStop.acquisitions <= 1

AllHandlesEmpty ==
    /\ this.socket = NULL
    /\ this.mediaRecorder = NULL
    /\ this.audioContext = NULL
    /\ this.destination = NULL
    /\ this.micSource = NULL
    /\ this.screenSource = NULL
    /\ this.micStream = NULL
    /\ this.screenStream = NULL

\* C2: whenever stop() returns, every session handle is null and
\* isConnected is false.
C2_StopEmptiesEveryHandle ==
    [][Stop => (AllHandlesEmpty /\ ~isActive(World))']_vars

\* C3: once the service is inactive and the mixing graph of an acquisition
\* was closed by stop(), the microphone stream that acquisition delivered has
\* no live track and no encoder is recording.
C3_StopCancelsAcquisition ==
    \A k \in Sessions :
        (/\ ~this.isConnected
         /\ audioContexts[k] = "closed"
         /\ getUserMedia[k].state = "resolved")
        => /\ micStreams[k] # "live"
           /\ \A r \in Sessions : recorders[r].state # "recording"

\* the screen-share source nodes connected to the destination of context c
ConnectedSecondaries(c) ==
    {n \in ScreenNodeIds : screenNodes[n].conn = c}

\* C5: in every reachable state at most one secondary source node is
\* connected to the destination of a mixing graph, and an attach that
\* replaces the attached secondary leaves the previous node disconnected.
C5_AtMostOneSecondary ==
    /\ [](\A c \in Sessions : Cardinality(ConnectedSecondaries(c)) <= 1)
    /\ [][\A s \in ScreenStreams :
            (AddScreenShareAudio(s) /\ this.screenSource # NULL
                /\ this'.screenSource # this.screenSource)
            => screenNodes'[this.screenSource].conn = NULL]_vars

\* a second attach replaced node 1: node 2 was created while node 1 was
\* attached, and node 1 has been disconnected since
C5_Witness ==
    /\ this.screenSource = 2
    /\ screenNodes[2].conn = this.destination
    /\ this.destination # NULL
    /\ screenNodes[1] = NoNode

\* the state a start() call may change
SessionState == <<this, sockets, audioContexts, destStreams, getUserMedia,
                  micStreams, micNodes, screenNodes, recorders>>

\* C6: a start() call whose credential response carries no key rejects with
\* the missing-key error and changes nothing: no connection is created, no
\* audio is acquired and isActive() is what it was.
C6_NoKeyRejects ==
    [][\A i \in Sessions, resp \in TokenResponses :
        (resp.fetched /\ resp.body.key = "" /\ StartResume(i, resp))
        => /\ calls'[i].st = "rejected"
           /\ calls'[i].err = "No Deepgram API key found"
           /\ UNCHANGED SessionState]_vars

\* a start() was rejected for the missing key; nothing was created
C6_Witness ==
    /\ calls[1].st = "rejected"
    /\ calls[1].err = "No Deepgram API key found"
    /\ sockets[1] = -1
    /\ ~isActive(World)

(* ------ under Spec: screen-share attach and detach, start() no-op ------- *)

\* C11: addScreenShareAudio with a stream that has no audio track creates
\* and connects no node and leaves every node of the mixing graph as it was.
C11_SilentShareLeavesGraph ==
    [][\A s \in ScreenStreams :
        (AudioTrackCount(s) = 0 /\ AddScreenShareAudio(s))
        => /\ UNCHANGED <<screenNodes, micNodes, audioContexts, destStreams>>
           /\ this'.screenSource = this.screenSource]_vars

\* the video-only share was handed over while the share of stream 1 was
\* attached to the ready graph, and that node is still attached
C11_Witness ==
    /\ variant = "queued"
    /\ this.screenStream = 2
    /\ this.destination # NULL
    /\ this.screenSource # NULL
    /\ screenNodes[this.screenSource].stream = 1
    /\ screenNodes[this.screenSource].conn = this.destination

\* among nodes, the screen-share nodes of stream st connected to
\* destination c
AttachedShares(nodes, st, c) ==
    {n \in ScreenNodeIds : nodes[n].stream = st /\ nodes[n].conn = c}

\* C12: an audio-bearing stream offered to addScreenShareAudio before the
\* graph was ready, and neither removed nor stopped since, is connected to
\* the destination by exactly one node once startAudioProcessing has
\* completed the graph.
C12_DeferredShareApplied ==
    [][\A k \in Sessions, recorder \in RecorderOutcomes :
        (/\ sinceStop.deferred # NULL
         /\ this.audioContext # NULL
         /\ this.destination # NULL
         /\ GumResolve(k, recorder))
        => Cardinality(AttachedShares(screenNodes', sinceStop.deferred,
                                      this.destination)) = 1]_vars

\* C13: start() called while isActive() is true ends as a no-op: it fetches
\* nothing then or later, and it leaves every handle, the listener list and
\* the connected flag as they were.
C13_StartWhileActiveIsNoOp ==
    /\ [][\A d \in DeviceIds :
            (isActive(World) /\ Start(d))
            => /\ calls'[NextCall].st = "noop"
               /\ UNCHANGED SessionState]_vars
    /\ [][\A i \in Sessions :
            calls[i].st = "noop" => calls'[i].st = "noop"]_vars

\* the second start() was made while the first session was connected
C13_Witness ==
    /\ calls[2].st = "noop"
    /\ isActive(World)
    /\ sockets[2] = -1

\* the fields of the instance other than the screen-share source and stream
PipelineFields(t) ==
    [t EXCEPT !.screenSource = NULL, !.screenStream = NULL]

\* C16: after removeScreenShareAudio() the service holds no screen-share
\* node and no stored screen-share stream, and no screen-share node is
\* connected to its destination; with nothing attached and nothing stored
\* the call changes nothing.
C16_RemoveClearsSecondary ==
    [][RemoveScreenShareAudio
        => /\ this'.screenSource = NULL
           /\ this'.screenStream = NULL
           /\ this.destination # NULL
                => \A n \in ScreenNodeIds :
                        screenNodes'[n].conn # this.destination
           /\ (this.screenSource = NULL /\ this.screenStream = NULL)
                => UNCHANGED SessionState]_vars

\* a stored share is attached in a recording session: the state from
\* which removeScreenShareAudio() has a node to disconnect and a stored
\* stream to forget
C16_Witness ==
    /\ variant = "queued"
    /\ this.screenStream = 1
    /\ this.screenSource # NULL
    /\ screenNodes[this.screenSource].conn = this.destination
    /\ this.mediaRecorder # NULL
    /\ recorders[this.mediaRecorder].state = "recording"

\* C17: addScreenShareAudio and removeScreenShareAudio change only the
\* screen-share node and the stored screen-share stream: the graph, the
\* microphone source, the encoder, the sockets and the connected flag stay.
C17_ShareTogglesOnlySecondary ==
    [][((\E s \in ScreenStreams : AddScreenShareAudio(s))
            \/ RemoveScreenShareAudio)
        => /\ PipelineFields(this') = PipelineFields(this)
           /\ UNCHANGED <<sockets, audioContexts, destStreams, getUserMedia,
                          micStreams, micNodes, recorders, calls>>]_vars

\* a share was attached while the session was recording on an open socket
C17_Witness ==
    /\ variant = "lib"
    /\ this.screenSource # NULL
    /\ this.mediaRecorder # NULL
    /\ recorders[this.mediaRecorder].state = "recording"
    /\ this.socket # NULL
    /\ sockets[this.socket] = 1
    /\ micNodes[this.micSource].conn = this.destination

(* ------------- under SpecBus: subscriptions and inbound frames --------- *)

\* callback cb is in the listener list
Listed(cb) ==
    \E i \in 1..Len(this.listeners) : this.listeners[i] = cb

\* the caption events callback cb was called with, in order
Received(cb) ==
    SelectSeq(deliveries, LAMBDA d : d.cb = cb)

\* the subscriptions of callback cb, as positions' contents
SubscriptionsOf(listeners, cb) ==
    SelectSeq(listeners, LAMBDA l : l = cb)

\* C4: invoking the unsubscribe function of a callback takes it off the
\* listener list and leaves the subscriptions of every other callback as
\* they were; a callback that is off the list is called by no step; and a
\* step that delivers a caption delivers it to every callback on the list.
C4_UnsubscribedReceivesNothing ==
    /\ [][\A cb \in Callbacks :
            Unsubscribe(cb)
            => /\ ~Listed(cb)'
               /\ \A o \in Callbacks \ {cb} :
                    SubscriptionsOf(this'.listeners, o)
                        = SubscriptionsOf(this.listeners, o)]_vars
    /\ [][\A cb \in Callbacks :
            ~Listed(cb) => Received(cb)' = Received(cb)]_vars
    /\ [][\A cb \in Callbacks :
            (Listed(cb) /\ deliveries' # deliveries)
            => Len(Received(cb)') > Len(Received(cb))]_vars

\* both callbacks received a first caption, cbA was unsubscribed, and a
\* second, different caption went to cbB alone
C4_Witness ==
    /\ Len(deliveries) = 3
    /\ deliveries[1].cb # deliveries[2].cb
    /\ deliveries[1].caption = deliveries[2].caption
    /\ deliveries[3].cb = "cbB"
    /\ deliveries[3].caption # deliveries[1].caption
    /\ ~Listed("cbA")
    /\ Listed("cbB")

\* the frame a step has just handled has no transcript to show
BlankFrame(m) ==
    \/ ~m.alt
    \/ ~m.hasTranscript
    \/ Len(m.transcript) = 0

\* C7: a frame whose first alternative is missing, has no transcript or has
\* the empty transcript produces no caption event, and every caption ever
\* delivered has non-empty text.
C7_NoBlankCaption ==
    /\ [](\A i \in 1..Len(deliveries) : Len(deliveries[i].caption.text) > 0)
    /\ [][(handled' # handled /\ BlankFrame(inbound'[1]))
            => deliveries' = deliveries]_vars

\* a subscriber that received the first frame's caption received nothing
\* for the empty-transcript frame that followed
C7_Witness ==
    /\ handled = 2
    /\ inbound[1] = EmptyTranscript
    /\ Len(deliveries) = 1
    /\ Listed(deliveries[1].cb)

\* C8: a frame with a top-level error field delivers one error event to
\* every error subscriber and no caption event, and leaves the session
\* connected.
C8_ServiceErrorReported ==
    [][(handled' # handled /\ inbound'[1].json /\ inbound'[1].hasError)
        => /\ Len(errorEvents') = Len(errorEvents) + Len(errorListeners)
           /\ deliveries' = deliveries
           /\ this'.isConnected = this.isConnected]_vars

\* C9: a close event with a non-normal close code delivers an error event to
\* every error subscriber and leaves isActive() false.
C9_AbnormalCloseReported ==
    [][\A k \in Sessions, code \in CloseCodes \ {1000} :
        OnClose(k, code)
        => /\ Len(errorEvents') = Len(errorEvents) + Len(errorListeners)
           /\ ~isActive(World)']_vars

\* C10: a frame that parses and has a non-empty transcript is delivered
\* once to every subscription, in subscription order, as a caption with the
\* frame's transcript and with isFinal equal to the frame's is_final.
C10_OneCaptionPerFrame ==
    [][(/\ handled' # handled
        /\ inbound'[1].json
        /\ ~BlankFrame(inbound'[1]))
        => /\ Len(deliveries') = Len(deliveries) + Len(this.listeners)
           /\ SubSeq(deliveries', 1, Len(deliveries)) = deliveries
           /\ \A i \in 1..Len(this.listeners) :
                LET d == deliveries'[Len(deliveries) + i]
                IN  /\ d.cb = this.listeners[i]
                    /\ d.caption.text = inbound'[1].transcript
                    /\ d.caption.isFinal = inbound'[1].is_final]_vars

\* an interim frame and then a final frame: the subscriber saw one interim
\* caption and then one final caption
C10_Witness ==
    /\ handled = 2
    /\ Received("cbA") =
        << [cb |-> "cbA", caption |-> [text |-> <<"hi">>,
                                        speaker |-> <<"Speaker", 0>>,
                                        isFinal |-> "false"]],
           [cb |-> "cbA", caption |-> [text |-> <<"hi", "there">>,
                                        speaker |-> <<"Speaker", 1>>,
                                        isFinal |-> "true"]] >>

\* C15: invoking the unsubscribe function of one subscription removes
\* that one subscription and no other, also when another subscription was
\* registered with the same callback.
C15_IndependentSubscriptions ==
    [][\A cb \in Callbacks :
        (Listed(cb) /\ Unsubscribe(cb))
        => Len(this'.listeners) = Len(this.listeners) - 1]_vars

(* ------ under SpecEmit: callbacks that change the listener list -------- *)

\* C14: a caption is delivered, in subscription order, to exactly the
\* callbacks that were on the listener list when its emission started,
\* whatever the callbacks subscribe or unsubscribe while they are called.
C14_PassUsesListenersAtStart ==
    [][(handled' # handled /\ inbound'[1].json /\ ~BlankFrame(inbound'[1]))
        => /\ Len(deliveries') = Len(deliveries) + Len(this.listeners)
           /\ \A i \in 1..Len(this.listeners) :
                deliveries'[Len(deliveries) + i].cb = this.listeners[i]]_vars

\* cbA, called first, unsubscribed cbB during the pass, and cbB was still
\* called with that caption
C14_Witness ==
    /\ handled = 1
    /\ reactions["cbA"] = <<"unsubscribe", "cbB">>
    /\ Len(deliveries) = 2
    /\ deliveries[1].cb = "cbA"
    /\ deliveries[2].cb = "cbB"
    /\ deliveries[2].caption = deliveries[1].caption
    /\ this.listeners = <<"cbA">>

(* ------- under SpecPipe: acquisition, encoded chunks, remote close ----- *)

\* C18: an encoded chunk is sent exactly when it is non-empty and the
\* socket the service holds is open; otherwise it is dropped; either way no
\* state of the service or of its objects changes.
C18_ChunkSentOnlyWhenOpen ==
    [][\A r \in Sessions, size \in ChunkSizes :
        OnDataAvailable(r, size)
        => /\ outbound'[1].sentOn # NULL
                => /\ size > 0
                   /\ outbound'[1].sentOn = this.socket
                   /\ sockets[this.socket] = 1
           /\ (size > 0 /\ this.socket # NULL /\ sockets[this.socket] = 1)
                => outbound'[1].sentOn = this.socket
           /\ UNCHANGED SessionState]_vars

\* a non-empty chunk was dropped while the service held a socket that was
\* still connecting
C18_Witness ==
    /\ outbound # <<>>
    /\ outbound[1].size > 0
    /\ outbound[1].sentOn = NULL
    /\ this.socket # NULL
    /\ sockets[this.socket] = 0
    /\ recorders[outbound[1].recorder].state = "recording"

\* C19: when the close event of the current socket has been handled, the
\* encoder is stopped, no track of a microphone or destination stream is
\* live, the graph is closed, every handle is null and isActive() is false.
C19_RemoteCloseTearsDown ==
    [][\A k \in Sessions, code \in CloseCodes :
        (this.socket = k /\ OnClose(k, code))
        => /\ \A r \in Sessions : recorders'[r].state # "recording"
           /\ this.micStream # NULL => micStreams'[this.micStream] = "stopped"
           /\ this.audioContext # NULL
                => audioContexts'[this.audioContext] = "closed"
           /\ AllHandlesEmpty'
           /\ ~isActive(World)']_vars

\* C20: when getUserMedia rejects in the session of the open current
\* socket, every error subscriber gets one error event, the socket stays
\* open, isActive() stays true and no encoder is recording.
C20_AcquisitionFailureReported ==
    [][\A k \in Sessions :
        (this.socket = k /\ sockets[k] = 1 /\ GumReject(k))
        => /\ Len(errorEvents') = Len(errorEvents) + Len(errorListeners)
           /\ sockets'[k] = 1
           /\ isActive(World)'
           /\ \A r \in Sessions : recorders'[r].state # "recording"]_vars

\* C21: an error notification of a WebSocket gives every error subscriber
\* one generic error event and changes no session state: the connected
\* flag and every handle are the same before and after it.
C21_TransportErrorOnlyReported ==
    [][notified' # notified
        => /\ Len(errorEvents') = Len(errorEvents) + Len(errorListeners)
           /\ UNCHANGED SessionState]_vars

\* the frame half of C21 alone: the notification changes no session state
C21_TransportErrorChangesNothing ==
    [][notified' # notified => UNCHANGED SessionState]_vars

\* the frames received, the one received first first
Arrivals == [i \in 1..Len(inbound) |-> inbound[Len(inbound) + 1 - i]]

\* the captions in seq are those of frames received, in the order of their
\* frames: each caption can be assigned a frame that carries its text and
\* its final mark so that no caption is assigned a frame received earlier
\* than the frame of a caption before it
InArrivalOrder(seq) ==
    \E f \in [1..Len(seq) -> 1..Len(Arrivals)] :
        /\ \A i \in 1..Len(seq) :
            /\ HasTranscript(Arrivals[f[i]])
            /\ seq[i].caption.text = Arrivals[f[i]].transcript
            /\ seq[i].caption.isFinal = Arrivals[f[i]].is_final
        /\ \A i, j \in 1..Len(seq) : i < j => f[i] <= f[j]

\* C22: every subscriber receives its captions in the order in which the
\* frames they come from were received: of two captions a subscriber
\* received, the one received first comes from the frame received first;
\* what a subscriber has received stays as it is, and whatever it receives
\* next is appended in the step that handles a frame and carries the
\* transcript of that frame.
C22_CaptionsInArrivalOrder ==
    /\ [](\A cb \in Callbacks : InArrivalOrder(Received(cb)))
    /\ [][\A cb \in Callbacks :
            LET before == Received(cb)
                after  == Received(cb)'
            IN  /\ Len(after) >= Len(before)
                /\ SubSeq(after, 1, Len(before)) = before
                /\ \A i \in (Len(before) + 1)..Len(after) :
                    /\ handled' = handled + 1
                    /\ after[i].caption.text = inbound'[1].transcript]_vars

\* a final frame and then an interim frame: the subscriber saw the caption
\* of the frame received first, then the caption of the frame received last
C22_Witness ==
    /\ handled = 2
    /\ inbound = <<Interim, Final>>
    /\ Len(Received("cbB")) = 2
    /\ Received("cbB")[1].caption.text = Final.transcript
    /\ Received("cbB")[2].caption.text = Interim.transcript

\* the speaker tag of the first word of the first alternative of frame m,
\* if the frame has one
FirstWordTagged(m) == m.words = "tagged"

\* C23: the speaker label of every caption is "Speaker n": n is the speaker
\* tag of the first word of the frame's first alternative when that word
\* has one, and 0 when the alternative has no words or its first word has
\* no tag.
C23_SpeakerFromFirstWord ==
    /\ [](\A i \in 1..Len(deliveries) :
            /\ Len(deliveries[i].caption.speaker) = 2
            /\ deliveries[i].caption.speaker[1] = "Speaker"
            /\ deliveries[i].caption.speaker[2] \in Nat)
    /\ [][\A i \in (Len(deliveries) + 1)..Len(deliveries') :
            deliveries'[i].caption.speaker[2] =
                IF FirstWordTagged(inbound'[1])
                THEN inbound'[1].speaker
                ELSE 0]_vars

\* a frame whose first word is tagged with speaker 1 was labelled
\* "Speaker 1", and a frame without any words was labelled "Speaker 0"
C23_Witness ==
    /\ Len(deliveries) = 2
    /\ inbound[1] = Unmarked
    /\ deliveries[1].caption.speaker = <<"Speaker", 1>>
    /\ deliveries[2].caption.speaker = <<"Speaker", 0>>

\* C24: the microphone is acquired from the caller's device when the
\* deviceId names an available device and from the platform default in
\* every other case, so getUserMedia is never asked for exactly a device
\* that is not available.
C24_UnknownDeviceFallsBack ==
    \A k \in Sessions :
        getUserMedia[k].state = "pending"
        => getUserMedia[k].audio \in {"default"} \cup AvailableDevices

\* C25: the promise of getAudioDevices() is never rejected; it asks for
\* the microphone before it enumerates, and enumerates only after that was
\* granted; it resolves with exactly the audio-input devices of the
\* enumeration, in their order; it resolves with the empty list when the
\* permission was denied or the enumeration failed; and none of its steps
\* changes the state of the session.
C25_DeviceListNeverRejects ==
    /\ [](deviceQuery # <<>> =>
            LET q == deviceQuery[1]
                inputs == {i \in 1..Len(q.enumerated) :
                                q.enumerated[i].kind = "audioinput"}
            IN  /\ q.promise \in {"pending", "resolved"}
                /\ q.asked \in {<<"getUserMedia">>,
                                <<"getUserMedia", "enumerateDevices">>}
                /\ q.promise = "resolved" =>
                    /\ \A i \in 1..Len(q.value) :
                            q.value[i].kind = "audioinput"
                    /\ Len(q.value) = Cardinality(inputs)
                    /\ \A i \in inputs : \E j \in 1..Len(q.value) :
                            q.value[j] = q.enumerated[i]
                    /\ q.failed => q.value = <<>>)
    /\ [][deviceVars' # deviceVars
            => UNCHANGED <<SessionState, calls, deliveries>>]_vars

\* while the service was active, a call resolved with the two microphones
\* of an enumeration that also listed a camera and a speaker
C25_Witness ==
    /\ this.isConnected
    /\ deviceQuery # <<>>
    /\ deviceQuery[1].promise = "resolved"
    /\ Len(deviceQuery[1].enumerated) = 4
    /\ deviceQuery[1].value =
            <<Device("audioinput", "mic1"), Device("audioinput", "mic2")>>
    /\ probes = 1

\* the frame is not parseable or lacks the channel/alternatives structure
Malformed(m) == ~m.json \/ ~m.alt

\* C26: a malformed frame that carries no service error is ignored: the
\* handler delivers no caption, no exception leaves the handler, and the
\* connected flag and every handle stay as they were.
C26_MalformedFrameIgnored ==
    [][(/\ handled' # handled
        /\ Malformed(inbound'[1])
        /\ ~inbound'[1].hasError)
        => /\ deliveries' = deliveries
           /\ ~parseThrows(inbound'[1])
           /\ UNCHANGED SessionState]_vars

\* C26 without the exception: a malformed frame delivers nothing and
\* changes no session state
C26_MalformedFrameChangesNothing ==
    [][(/\ handled' # handled
        /\ Malformed(inbound'[1])
        /\ ~inbound'[1].hasError)
        => /\ deliveries' = deliveries
           /\ UNCHANGED SessionState]_vars

\* C27: when stop() ran after start() created the connection and before
\* the connection opened, the open event of that connection does not make
\* the service active: isActive() stays false and no microphone
\* acquisition is started.
C27_StopBeforeOpenCancels ==
    [][\A k \in Sessions :
        (this.socket = NULL /\ OnOpen(k))
        => /\ ~isActive(World)'
           /\ getUserMedia'[k].state = "none"
           /\ audioContexts'[k] = "none"]_vars

\* C28: an event of the connection of an earlier session, which stop()
\* already closed, does not affect the session a later start() began: the
\* late close event of the old socket marks that socket closed and leaves
\* the fields of the service and every other object as they were.
C28_StaleCloseIgnored ==
    [][\A k \in Sessions, code \in CloseCodes :
        (/\ sockets[k] = 2
         /\ this.socket # NULL
         /\ this.socket # k
         /\ OnClose(k, code))
        => /\ this' = this
           /\ sockets' = [sockets EXCEPT ![k] = 3]
           /\ UNCHANGED <<audioContexts, destStreams, getUserMedia,
                          micStreams, micNodes, screenNodes, recorders>>]_vars

\* C29: after stop() returned and until a later start() has made a new
\* connection, so while the service holds no connection, no caption is
\* delivered to any subscriber.
C29_NoCaptionAfterStop ==
    [][this.socket = NULL => deliveries' = deliveries]_vars

\* C30: the pipeline of a session is established in a fixed order.
\* isConnected becomes true only in the step in which a connecting socket
\* opens; an AudioContext exists only for a socket that has opened; a
\* recorder starts only in a step after which its microphone stream is
\* live and its source node is connected to the destination the recorder
\* records; and an acquisition that failed starts no recorder, in the step
\* of the failure or later.
C30_PipelineOrder ==
    /\ [][(~this.isConnected /\ this'.isConnected)
            => \E k \in Sessions : sockets[k] = 0 /\ sockets'[k] = 1]_vars
    /\ [](\A k \in Sessions : audioContexts[k] # "none" => sockets[k] >= 1)
    /\ [][\A r \in Sessions :
            (recorders[r].state # "recording"
                /\ recorders'[r].state = "recording")
            => /\ getUserMedia[r].state = "pending"
               /\ getUserMedia'[r].state = "resolved"
               /\ micStreams'[r] = "live"
               /\ micNodes'[r].conn # NULL
               /\ micNodes'[r].conn = recorders'[r].stream]_vars
    /\ [][\A k \in Sessions : GumReject(k) => recorders' = recorders]_vars
    /\ [](\A k \in Sessions :
            getUserMedia[k].state = "rejected" => recorders[k].state = "none")

\* the acquisition of a first session failed and left no recorder; after
\* stop() a second session opened, acquired its microphone, connected it to
\* its destination and started its recorder
C30_Witness ==
    /\ getUserMedia[1].state = "rejected"
    /\ recorders[1].state = "none"
    /\ sockets[2] = 1
    /\ this.isConnected
    /\ audioContexts[2] = "running"
    /\ getUserMedia[2].state = "resolved"
    /\ micNodes[2].conn = 2
    /\ recorders[2] = [state |-> "recording", stream |-> 2]

\* what startTranscription() calls created and did not release
LiveGoogleObjects ==
    [streams    |-> {k \in Transcriptions : gStreams[k] = "live"},
     contexts   |-> {k \in Transcriptions : gContexts[k] = "running"},
     processors |-> {k \in Transcriptions : gProcessors[k] = "connected"}]

\* C31: overlapping startTranscription() calls give one session: at most
\* one live microphone stream, one running audio context and one connected
\* processor exist, and each of them is the one the service holds, so that
\* stopTranscription() can release it.
C31_OverlappingStartsOneSession ==
    /\ Cardinality(LiveGoogleObjects.streams) <= 1
    /\ Cardinality(LiveGoogleObjects.contexts) <= 1
    /\ Cardinality(LiveGoogleObjects.processors) <= 1
    /\ LiveGoogleObjects.streams \subseteq {google.mediaStream}
    /\ LiveGoogleObjects.contexts \subseteq {google.audioContext}
    /\ LiveGoogleObjects.processors \subseteq {google.processor}

\* nothing of a session is held by the service
NothingHeld ==
    /\ google.mediaStream = NULL
    /\ google.audioContext = NULL
    /\ google.processor = NULL

\* C32: when stopTranscription() was called, no startTranscription() was
\* called after it and no startTranscription() call is still waiting for
\* the microphone, the service is not recording: isActive() is false and
\* it holds no microphone stream, audio context or processor.
C32_StopDuringStartCancels ==
    (/\ gStopped
     /\ \A k \in Transcriptions : transcriptions[k] # "awaiting")
    => /\ ~google.isRecording
       /\ NothingHeld

\* C33: after stopTranscription() returned and until startTranscription()
\* is called again, no caption callback is called, also not for a chunk
\* whose request was in flight when stopTranscription() was called.
C33_NoGoogleCaptionAfterStop ==
    [][gStopped => gDeliveries' = gDeliveries]_vars

\* C34: the captions a subscriber is called with are in the order in which
\* their chunks were captured, whatever the order of the responses.
C34_CaptionsInCaptureOrder ==
    \A i, j \in 1..Len(gDeliveries) :
        (i < j /\ gDeliveries[i].cb = gDeliveries[j].cb)
        => gDeliveries[i].caption.text <= gDeliveries[j].caption.text

\* C35: the end event restarts the recognizer exactly when the service is
\* meant to be listening.  After a start() that succeeded and before the
\* next stop(), an end event calls recognition.start() once; otherwise an
\* end event calls it not at all and leaves the recognizer idle; and a
\* start() made while listening, or without speech recognition support,
\* does not call recognition.start().
C35_RestartOnlyWhileListening ==
    /\ [][(webHistory'.ops # webHistory.ops /\ webHistory'.last = "end")
            => IF webHistory.meant
               THEN /\ webHistory'.starts = webHistory.starts + 1
                    /\ recognizer' = "started"
               ELSE /\ webHistory'.starts = webHistory.starts
                    /\ recognizer' = "idle"]_vars
    /\ [][(/\ webHistory'.ops # webHistory.ops
           /\ webHistory'.last = "start"
           /\ webHistory.meant \/ web.recognition = NULL)
            => /\ webHistory'.starts = webHistory.starts
               /\ recognizer' = recognizer]_vars

\* a start(), an end event that restarted the recognizer, a stop(), and an
\* end event that did not restart it
C35_Witness ==
    /\ webHistory.ops = 4
    /\ webHistory.last = "end"
    /\ webHistory.starts = 2
    /\ ~webHistory.meant
    /\ recognizer = "idle"

\* C36: after the sidebar unmounted, with no start() issued after that,
\* its callback is off the listener list, isActive() is false, no
\* microphone stream is live and no connection is open.
C36_UnmountStopsForGood ==
    sidebar.phase = "unmounted"
    => /\ ~Listed(SidebarCallback)
       /\ ~isActive(World)
       /\ \A k \in Sessions : micStreams[k] # "live"
       /\ \A k \in Sessions : sockets[k] # 1

\* the part of C36 about the subscription: after the unmount the callback
\* of the sidebar is off the list and is called no more
C36_UnmountUnsubscribes ==
    [][sidebar.phase = "unmounted"
        => /\ ~Listed(SidebarCallback)
           /\ deliveries' = deliveries]_vars

\* the request supplies no audio
NoAudio(r) == ~r.parses \/ r.audio = ""

\* the call of the Speech API did not give a recognition result
RecognitionFails(r) ==
    r.speech \in {"throws", "status403", "status503", "badBody"}

\* the status of the Speech API's response, 0 when there is no response
UpstreamStatus(r) ==
    IF r.speech = "status403" THEN 403
    ELSE IF r.speech = "status503" THEN 503
    ELSE IF r.speech = "throws" THEN 0
    ELSE 200

\* C37: every request is answered with one of: 400 and an error, without
\* an upstream call, when no audio is supplied; 500 and an error when the
\* API key is not configured; the upstream status and an error when speech
\* recognition fails; a success body with the transcript otherwise.  The
\* translation is called only for a non-empty transcript with translateTo
\* set and different from languageCode, and when it fails the success body
\* has the transcript and no translated text.
C37_TranscribeAnswers ==
    exchange # <<>> =>
        LET r == exchange[1].request
            a == exchange[1].response
        IN  /\ IF NoAudio(r)
               THEN a.status = 400 /\ a.error # "" /\ a.calls = <<>>
               ELSE IF r.apiKey = ""
               THEN a.status = 500 /\ a.error # ""
               ELSE IF RecognitionFails(r)
               THEN a.status = UpstreamStatus(r) /\ a.error # ""
               ELSE a.status = 200 /\ a.error = "" /\ a.hasTranscript
            /\ ("translate" \in {a.calls[i] : i \in 1..Len(a.calls)})
                => /\ a.transcript # ""
                   /\ r.translateTo # ""
                   /\ r.translateTo # r.languageCode
            /\ (a.status = 200 /\ r.translation # "translated")
                => a.translatedText = ""

\* C37 for the requests that parse and whose Speech API call is answered
C37_AnswersWhenNothingThrows ==
    (exchange # <<>> /\ exchange[1].request.parses
        /\ exchange[1].request.speech \notin {"throws", "badBody"})
    => C37_TranscribeAnswers

\* C38: when a callback throws while a caption is delivered, every callback
\* that was on the listener list when the delivery began is still called
\* with that caption, and the fields of the service, the listener list
\* among them, and every handle are as they were before.
C38_ThrowingCallbackIsolated ==
    [][(/\ handled' # handled
        /\ inbound'[1].json
        /\ ~BlankFrame(inbound'[1]))
        => /\ \A i \in 1..Len(this.listeners) :
                \E j \in (Len(deliveries) + 1)..Len(deliveries') :
                    /\ deliveries'[j].cb = this.listeners[i]
                    /\ deliveries'[j].caption.text = inbound'[1].transcript
           /\ UNCHANGED SessionState]_vars

\* the frame half of C38: a delivery in which callbacks throw changes no
\* field of the service and no handle
C38_ThrowChangesNoState ==
    [][handled' # handled => UNCHANGED SessionState]_vars

====
